---- MODULE Spec2Model ----
\* Ranking point calculation engine of the player database
\* (src/player_database_app.py): the results file as it is stored, its
\* conversion by load_results, and calculate_player_points applied to it;
\* the players file and the pages that show team totals (Team Combiner,
\* Multi-Team Report, AVC Rankings).
EXTENDS Integers, Sequences, FiniteSets, TLC

VARIABLES
    results_file,   \* rows of results.csv, every cell as stored text
    results_df,     \* <<>>, or the caller's loaded results frame after the call
    players_file,   \* rows of players.csv, every cell as stored text
    shown,          \* <<>>, or <<what the page that ran has put on the screen>>
    player_id,      \* argument: the athlete
    mode,           \* argument: "365" or "custom"
    ref_date,       \* argument: None or <<day>>
    start_date,     \* argument: None or <<day>>
    end_date,       \* argument: None or <<day>>
    today,          \* date.today() at the time of the call
    result,         \* <<>> before the call, <<breakdown>> after it returned
    locals,         \* <<>>, or <<the bucket sums and totals the call computed>>
    player_points_cache, \* the cache of get_pts as the last report left it
    uuids,          \* the number of ids new_id() has returned
    uploaded_file   \* the rows of the Excel file of the import page

vars == <<results_file, results_df, players_file, shown, player_id, mode, ref_date, start_date, end_date, today,
          result, locals, player_points_cache, uuids, uploaded_file>>

\* The variables of the operations on the store.
store_vars == <<uuids, uploaded_file>>

\* No report was generated and no operation on the store has run.
NoSession ==
    /\ player_points_cache = <<>>
    /\ uuids = 0
    /\ uploaded_file = <<>>

-----------------------------------------------------------------------------
\* Bounds of the model.

\* Most results of a scoring input beyond its seed results.
MaxResults == 3
\* Largest points value of a result beyond the seed results.
MaxPoints == 2
\* Longest results file of the windowing inputs.
MaxWindowResults == 2
\* Longest results file of the data-quality inputs.
MaxQualityResults == 2
\* Longest results file of the team and ranking inputs.
MaxTeamResults == 2

-----------------------------------------------------------------------------
\* Program constants.

\* head(4): results counted per bucket.
TopN == 4
\* timedelta(days=365): length of the rolling window.
WindowDays == 365

EVENT_TYPES == <<"AVC", "FIVB", "AVC Multi/Zonal", "Other Multi/Zonal">>

\* Absent values. A date, a number or an argument that may be absent is a
\* sequence of length at most one.
None == <<>>
NaT == <<>>
NaN == <<>>

-----------------------------------------------------------------------------
\* Helpers.

Range(s) == {s[i] : i \in DOMAIN s}

RECURSIVE SumPoints(_)
\* Series.sum() of the points column.
SumPoints(df) ==
    IF df = <<>> THEN 0 ELSE Head(df).points + SumPoints(Tail(df))

\* head that stops one row early.
head_short(df, n) == SubSeq(df, 1, IF Len(df) < n - 1 THEN Len(df) ELSE n - 1)

\* head that keeps every row.
head_all(df, n) == df

\* DataFrame.head(n).
head(df, n) == SubSeq(df, 1, IF Len(df) < n THEN Len(df) ELSE n)

\* A stored cell: text that parses to a value, an empty cell, or other text.
Cell(v) == [kind |-> "value", v |-> v]
BlankCell == [kind |-> "blank", v |-> 0]
JunkCell == [kind |-> "junk", v |-> 0]

\* pd.to_datetime(..., errors="coerce").dt.date on a stored cell.
parse_date(cell) == IF cell.kind = "value" THEN <<cell.v>> ELSE NaT

\* pd.to_numeric(..., errors="coerce") on a stored cell.
parse_numeric(cell) == IF cell.kind = "value" THEN <<cell.v>> ELSE NaN

\* load_results: the rows of the file with points and date converted.
load_results(file) ==
    [i \in DOMAIN file |->
        [file[i] EXCEPT !.points = parse_numeric(@), !.date = parse_date(@)]]

\* pd.to_datetime(res["date"], errors="coerce").dt.date on a loaded column:
\* a date stays, anything else becomes NaT.
to_datetime_date(d) == IF Len(d) = 1 THEN d ELSE NaT

\* The coercion that fills a missing points value with 1.
to_numeric_fillna_one(p) == IF Len(p) = 1 THEN p[1] ELSE 1

\* pd.to_numeric(window["points"], errors="coerce").fillna(0.0).
to_numeric_fillna(p) == IF Len(p) = 1 THEN p[1] ELSE 0

\* The window test without its upper bound.
in_window_no_end(d, start, end) == d # NaT /\ d[1] >= start

\* The window test with an exclusive lower bound.
in_window_strict_start(d, start, end) == d # NaT /\ d[1] > start /\ d[1] <= end

\* (res["date"] >= start) & (res["date"] <= end): NaT compares False.
in_window(d, start, end) == d # NaT /\ d[1] >= start /\ d[1] <= end

RECURSIVE OrderingsByPointsDesc(_, _)
\* Every arrangement of rows I of df with non-increasing points.
OrderingsByPointsDesc(df, I) ==
    IF I = {} THEN {<<>>}
    ELSE LET top == {i \in I : \A j \in I : df[j].points <= df[i].points}
         IN  UNION {{<<df[i]>> \o t : t \in OrderingsByPointsDesc(df, I \ {i})} : i \in top}

RECURSIVE OrderingsByPointsAsc(_, _)
\* Every arrangement of rows I of df with non-decreasing points.
OrderingsByPointsAsc(df, I) ==
    IF I = {} THEN {<<>>}
    ELSE LET low == {i \in I : \A j \in I : df[i].points <= df[j].points}
         IN  UNION {{<<df[i]>> \o t : t \in OrderingsByPointsAsc(df, I \ {i})} : i \in low}

\* The sort by points in ascending order.
sort_values_points_ascending(df) == OrderingsByPointsAsc(df, DOMAIN df)

\* sort_values("points", ascending=False): the default sort kind is quicksort,
\* which is not stable, so rows with equal points may come out in any order.
sort_values_points(df) == OrderingsByPointsDesc(df, DOMAIN df)

RECURSIVE OrderingsByDateAsc(_, _)
\* Every arrangement of rows I of df with non-decreasing date.
OrderingsByDateAsc(df, I) ==
    IF I = {} THEN {<<>>}
    ELSE LET first == {i \in I : \A j \in I : df[i].date[1] <= df[j].date[1]}
         IN  UNION {{<<df[i]>> \o t : t \in OrderingsByDateAsc(df, I \ {i})} : i \in first}

\* window.sort_values("date"); every row of the window has a date.
sort_values_date(df) == OrderingsByDateAsc(df, DOMAIN df)

\* The text of the period: the two dates and the note that follows them.
PeriodText(start, end, note) == [start |-> start, end |-> end, note |-> note]

\* The zero-filled breakdown of the three early returns.
ZeroBreakdown(window, scenario, period_text) ==
    [total_points |-> 0, bucket1_points |-> 0, bucket2_points |-> 0,
     selected_results |-> <<>>, window_results |-> window,
     scenario |-> scenario, period_text |-> period_text]

\* The return of an athlete without results.
no_results_breakdown ==
    ZeroBreakdown(<<>>, "no_results", PeriodText(None, None, ""))

\* The missing-bound return carrying the empty-window tag.
invalid_period_breakdown_untagged ==
    ZeroBreakdown(<<>>, "no_results_in_period", PeriodText(None, None, "No period selected"))

\* The return of a custom period with a missing bound.
invalid_period_breakdown ==
    ZeroBreakdown(<<>>, "invalid_period", PeriodText(None, None, "No period selected"))

\* The empty-window return carrying the no-data tag.
no_results_in_period_breakdown_as_no_results(window, period_text) ==
    ZeroBreakdown(window, "no_results", period_text)

\* The return of an empty window.
no_results_in_period_breakdown(window, period_text) ==
    ZeroBreakdown(window, "no_results_in_period", period_text)

\* start is None or end is None.
period_missing(start, end) == start = None \/ end = None

\* The buckets of scenario A (AVC Multi/Zonal allowed) and of scenario B
\* (Other Multi/Zonal allowed).
bucket1_A(window) ==
    SelectSeq(window, LAMBDA r : r.event_type \in {"AVC", "AVC Multi/Zonal"})

bucket2_A(window) == SelectSeq(window, LAMBDA r : r.event_type = "FIVB")

\* Bucket 1 of scenario B that lets AVC Multi/Zonal in.
bucket1_B_with_zonal(window) ==
    SelectSeq(window, LAMBDA r : r.event_type \in {"AVC", "AVC Multi/Zonal"})

bucket1_B(window) == SelectSeq(window, LAMBDA r : r.event_type = "AVC")

\* Bucket 2 of scenario B that takes every event type outside bucket 1.
bucket2_B_catch_all(window) ==
    SelectSeq(window, LAMBDA r : r.event_type \notin {"AVC", "AVC Multi/Zonal"})

bucket2_B(window) ==
    SelectSeq(window, LAMBDA r : r.event_type \in {"FIVB", "Other Multi/Zonal"})

\* bucket.sort_values("points", ascending=False).head(4): every outcome.
top_results(bucket) == {head(s, TopN) : s \in sort_values_points(bucket)}

\* The choice that always reports scenario A.
winner_always_A(a_wins, of_A, of_B) == of_A

\* if total_A >= total_B: ... else: ...: what is reported comes from the
\* scenario that won.
winner(a_wins, of_A, of_B) == IF a_wins THEN of_A ELSE of_B

\* The comparison that gives ties to scenario B.
PolicyAWins_strict(total_A, total_B) == total_A > total_B

\* total_A >= total_B.
PolicyAWins(total_A, total_B) == total_A >= total_B

\* The scoring of a non-empty window: every outcome, as the breakdown
\* returned and the sums computed on the way.
score_window(window0, period_text) ==
    LET window == [i \in DOMAIN window0 |->
                      [window0[i] EXCEPT !.points = to_numeric_fillna(@)]]
        Outcome(bucket1_A_top, bucket2_A_top, bucket1_B_top, bucket2_B_top) ==
            LET bucket1_A_pts == SumPoints(bucket1_A_top)
                bucket2_A_pts == SumPoints(bucket2_A_top)
                total_A == bucket1_A_pts + bucket2_A_pts
                bucket1_B_pts == SumPoints(bucket1_B_top)
                bucket2_B_pts == SumPoints(bucket2_B_top)
                total_B == bucket1_B_pts + bucket2_B_pts
                a_wins == PolicyAWins(total_A, total_B)
                concat == winner(a_wins, bucket1_A_top \o bucket2_A_top,
                                 bucket1_B_top \o bucket2_B_top)
                sums == [bucket1_A_pts |-> bucket1_A_pts, bucket2_A_pts |-> bucket2_A_pts,
                         total_A |-> total_A,
                         bucket1_B_pts |-> bucket1_B_pts, bucket2_B_pts |-> bucket2_B_pts,
                         total_B |-> total_B]
            IN  {[ret |->
                    [total_points |-> winner(a_wins, total_A, total_B),
                     bucket1_points |-> winner(a_wins, bucket1_A_pts, bucket1_B_pts),
                     bucket2_points |-> winner(a_wins, bucket2_A_pts, bucket2_B_pts),
                     selected_results |-> selected,
                     window_results |-> sorted_window,
                     scenario |-> winner(a_wins, "AVC_MZ_used", "Other_MZ_used"),
                     period_text |-> period_text],
                  locals |-> <<sums>>] :
                    selected \in sort_values_points(concat),
                    sorted_window \in sort_values_date(window)}
    IN  UNION {Outcome(t1A, t2A, t1B, t2B) :
                  t1A \in top_results(bucket1_A(window)),
                  t2A \in top_results(bucket2_A(window)),
                  t1B \in top_results(bucket1_B(window)),
                  t2B \in top_results(bucket2_B(window))}

\* The window filter that fails on a result without a date: no outcome.
window_filter_raising(res, start, end) ==
    IF \E i \in DOMAIN res : res[i].date = NaT
    THEN {}
    ELSE {SelectSeq(res, LAMBDA r : in_window(r.date, start, end))}

\* The window filter that keeps every dated result.
window_filter_all_dated(res, start, end) ==
    {SelectSeq(res, LAMBDA r : r.date # NaT)}

\* res[(res["date"] >= start) & (res["date"] <= end)].copy(): the outcomes
\* of the filter, which is the one frame of the rows inside the window.
window_filter(res, start, end) ==
    {SelectSeq(res, LAMBDA r : in_window(r.date, start, end))}

\* The caller's frame when the coercion of the points is written through to it.
frame_after_call_shared(results_df0, pid) ==
    [i \in DOMAIN results_df0 |->
        IF results_df0[i].player_id = pid
        THEN [results_df0[i] EXCEPT !.points = <<to_numeric_fillna(@)>>]
        ELSE results_df0[i]]

\* The caller's frame after the call: res and window are copies (.copy()),
\* so the assignments to their date and points columns leave it as it was.
frame_after_call(results_df0, pid) == results_df0

\* The no-data check placed after the check of the bounds.
res_empty_after_bounds(res0, bound_missing) == res0 = <<>> /\ ~ bound_missing

\* if res.empty: the first check of the call, whatever the window asked for.
res_empty(res0, bound_missing) == res0 = <<>>

\* An early return: no sums were computed.
Early(breakdown) == {[ret |-> breakdown, locals |-> <<>>]}

\* calculate_player_points: every outcome of the call (one for every order
\* the sorts can give to rows with equal keys).
calculate_player_points(results_df0, pid, md, ref, start_d, end_d, now) ==
    LET res0 == SelectSeq(results_df0, LAMBDA r : r.player_id = pid)
        res == [i \in DOMAIN res0 |-> [res0[i] EXCEPT !.date = to_datetime_date(@)]]
        ref1 == IF ref = None THEN now ELSE ref[1]
        Windowed(start, end, period_text) ==
            UNION {IF window = <<>>
                   THEN Early(no_results_in_period_breakdown(window, period_text))
                   ELSE score_window(window, period_text) :
                       window \in window_filter(res, start, end)}
    IN  IF res_empty(res0, md = "custom" /\ period_missing(start_d, end_d))
        THEN Early(no_results_breakdown)
        ELSE IF md = "365"
        THEN Windowed(ref1 - WindowDays, ref1,
                      PeriodText(<<ref1 - WindowDays>>, <<ref1>>, "(last 365 days)"))
        ELSE IF period_missing(start_d, end_d)
        THEN Early(invalid_period_breakdown)
        ELSE Windowed(start_d[1], end_d[1], PeriodText(start_d, end_d, ""))

-----------------------------------------------------------------------------
\* Inputs.

\* The reference day of the requests; day numbers count days.
RefDay == WindowDays + 1

Players == {"p1", "p2"}

Row(id, pid, d, et, p) ==
    [result_id |-> id, player_id |-> pid, date |-> d, event_type |-> et, points |-> p]

\* Seed results of a scoring input: none, or TopN - 1 results of one event
\* type whose points differ and exceed MaxPoints, so that one more result of
\* their bucket fills it and a second one overflows it.
SeedTypes == {"AVC", "FIVB"}

Seeds ==
    {<<>>} \cup {[i \in 1..(TopN - 1) |->
                    Row(i, "p1", Cell(RefDay - i), et, Cell(MaxPoints + i))] :
                    et \in SeedTypes}

\* Scoring inputs: one athlete, every result inside the rolling window (on
\* consecutive days back from the reference day): seed results followed by
\* up to MaxResults results of every event type and points value.
ScoreFile(seed, n, f) ==
    seed \o [i \in 1..n |->
                Row(Len(seed) + i, "p1", Cell(RefDay - Len(seed) - i),
                    f[i][1], Cell(f[i][2]))]

\* Windowing inputs: two athletes, dates at the edges of the window, empty
\* and unparseable date cells; the points of a result are its row number.
WindowDateCells ==
    {BlankCell, JunkCell, Cell(RefDay - WindowDays - 1), Cell(RefDay - WindowDays),
     Cell(RefDay), Cell(RefDay + 1)}

WindowFile(n, f) == [i \in 1..n |-> Row(i, f[i][1], f[i][2], "AVC", Cell(i))]

WindowBounds == {None, <<RefDay - WindowDays>>, <<RefDay>>}

\* Data-quality inputs: one athlete, every result inside the rolling window,
\* event types that are none of EVENT_TYPES, empty and non-numeric points.
UnknownEventType == "Exhibition"

QualityEventTypes == Range(EVENT_TYPES) \cup {UnknownEventType}

QualityPointsCells == {Cell(p) : p \in 1..MaxPoints} \cup {BlankCell, JunkCell}

QualityFile(n, f) ==
    [i \in 1..n |-> Row(i, "p1", Cell(RefDay - i), f[i][1], f[i][2])]

InitScore ==
    /\ \E n \in 0..MaxResults, seed \in Seeds :
          \E f \in [1..n -> Range(EVENT_TYPES) \X (1..MaxPoints)] :
             results_file = ScoreFile(seed, n, f)
    /\ player_id = "p1"
    /\ mode = "365"
    /\ ref_date = <<RefDay>>
    /\ start_date = None
    /\ end_date = None
    /\ today = RefDay

InitQuality ==
    /\ \E n \in 0..MaxQualityResults :
          \E f \in [1..n -> QualityEventTypes \X QualityPointsCells] :
             results_file = QualityFile(n, f)
    /\ player_id = "p1"
    /\ mode = "365"
    /\ ref_date = <<RefDay>>
    /\ start_date = None
    /\ end_date = None
    /\ today = RefDay

InitWindow ==
    /\ \E n \in 0..MaxWindowResults :
          \E f \in [1..n -> Players \X WindowDateCells] :
             results_file = WindowFile(n, f)
    /\ player_id = "p1"
    /\ today = RefDay
    /\ \/ /\ mode = "365"
          /\ ref_date \in {None, <<RefDay>>}
          /\ start_date = None
          /\ end_date = None
       \/ /\ mode = "custom"
          /\ ref_date = None
          /\ start_date \in WindowBounds
          /\ end_date \in WindowBounds

Init ==
    /\ result = <<>>
    /\ locals = <<>>
    /\ results_df = <<>>
    /\ players_file = <<>>
    /\ shown = <<>>
    /\ NoSession
    /\ (InitScore \/ InitWindow)

\* One call of calculate_player_points on the loaded results file.
Calculate ==
    /\ result = <<>>
    /\ \E o \in calculate_player_points(load_results(results_file), player_id, mode,
                                        ref_date, start_date, end_date, today) :
          /\ result' = <<o.ret>>
          /\ locals' = o.locals
    /\ results_df' = frame_after_call(load_results(results_file), player_id)
    /\ UNCHANGED <<results_file, players_file, shown, player_points_cache, store_vars,
                   player_id, mode, ref_date, start_date, end_date, today>>

Next == Calculate

Spec == Init /\ [][Next]_vars

\* The call on the windowing and the data-quality inputs.
InitQualityCall ==
    /\ result = <<>>
    /\ locals = <<>>
    /\ results_df = <<>>
    /\ players_file = <<>>
    /\ shown = <<>>
    /\ NoSession
    /\ (InitWindow \/ InitQuality)

NextQuality == Calculate

SpecQuality == InitQualityCall /\ [][NextQuality]_vars

-----------------------------------------------------------------------------
\* Text. A text is the sequence of its pieces, " " being a space between
\* words; the empty text is <<>>.

\* The text of a string without spaces.
Word(w) == IF w = "" THEN <<>> ELSE <<w>>

RECURSIVE lstrip(_)
lstrip(t) == IF t # <<>> /\ Head(t) = " " THEN lstrip(Tail(t)) ELSE t

RECURSIVE rstrip(_)
rstrip(t) == IF t # <<>> /\ t[Len(t)] = " " THEN rstrip(SubSeq(t, 1, Len(t) - 1)) ELSE t

\* str.strip().
strip(t) == rstrip(lstrip(t))

\* f"{r['first_name']} {r['last_name']}".strip().
full_name(r) == strip(Word(r.first_name) \o <<" ">> \o Word(r.last_name))

\* player_display_name: the name, followed by the FIVB id when there is one.
player_display_name(row) ==
    IF strip(Word(row.fivb_id)) # <<>>
    THEN full_name(row) \o <<" (FIVB: ", row.fivb_id, ")">>
    ELSE full_name(row)

\* The players file and its frame.

\* df.fillna("") on a cell read with dtype=str.
fillna(cell) == IF cell.kind = "value" THEN cell.v ELSE ""

\* load_players: every empty cell becomes "".
load_players(file) ==
    [i \in DOMAIN file |->
        [player_id |-> file[i].player_id,
         first_name |-> fillna(file[i].first_name),
         last_name |-> fillna(file[i].last_name),
         gender |-> fillna(file[i].gender),
         fivb_id |-> fillna(file[i].fivb_id)]]

\* get_player_by_id: the first row with the id, or None.
get_player_by_id(players_df, pid) ==
    LET row == SelectSeq(players_df, LAMBDA r : r.player_id = pid)
    IN  IF row = <<>> THEN None ELSE <<row[1]>>

\* The player ids of the model in the order of their strings.
PlayerIds == <<"p1", "p2", "p3">>

IdPlace(pid) == CHOOSE i \in DOMAIN PlayerIds : PlayerIds[i] = pid

\* tuple(sorted([pid, tm_id])).
sorted_pair(pid, tm_id) ==
    IF IdPlace(pid) <= IdPlace(tm_id) THEN <<pid, tm_id>> ELSE <<tm_id, pid>>

\* What the pages take from a breakdown into their rows.
Summary(ret) ==
    [total_points |-> ret.total_points, bucket1_points |-> ret.bucket1_points,
     bucket2_points |-> ret.bucket2_points, scenario |-> ret.scenario]

\* The request of a period as the pages pass it to calculate_player_points.
Rolling(ref) == [mode |-> "365", ref_date |-> ref, start_date |-> None, end_date |-> None]
Custom(start, end) ==
    [mode |-> "custom", ref_date |-> None, start_date |-> start, end_date |-> end]

\* One call of calculate_player_points by a page: every outcome.
points_of(results_df0, pid, period, now) ==
    {Summary(o.ret) :
        o \in calculate_player_points(results_df0, pid, period.mode, period.ref_date,
                                      period.start_date, period.end_date, now)}

\* get_pts with its cache: the cache ends with one outcome of the call for
\* every athlete asked for, and every request for the athlete returns it.
Caches(results_df0, pids, period, now) ==
    {cache \in [pids -> UNION {points_of(results_df0, pid, period, now) : pid \in pids}] :
        \A pid \in pids : cache[pid] \in points_of(results_df0, pid, period, now)}

\* The cache that a run of the report page finds filled by the run before.
player_points_cache_kept(previous) == previous

\* player_points_cache = {}: every run of the report page starts with an
\* empty cache.
player_points_cache_new(previous) == <<>>

\* get_pts for every athlete of the teams, on the cache of the run: an
\* athlete in the cache keeps the breakdown stored there, the others get
\* one outcome of the call, stored for every later request.
get_pts(cache0, results_df0, pids, period, now) ==
    {[pid \in pids \cup DOMAIN cache0 |->
         IF pid \in DOMAIN cache0 THEN cache0[pid] ELSE fresh[pid]] :
        fresh \in Caches(results_df0, pids \ DOMAIN cache0, period, now)}

\* The team total that counts the first athlete twice.
team_total_first_twice(res1, res2) == res1.total_points + res1.total_points

\* res1["total_points"] + res2["total_points"].
team_total(res1, res2) == res1.total_points + res2.total_points

\* The row of a team on a page.
TeamRow(no, p1_id, p2_id, res1, res2) ==
    [no |-> no, p1 |-> p1_id, p2 |-> p2_id, r1 |-> res1, r2 |-> res2,
     Total |-> team_total(res1, res2)]

RECURSIVE OrderingsByTotalDesc(_)
\* Every arrangement of a set of rows with non-increasing Total.
OrderingsByTotalDesc(rows) ==
    IF rows = {} THEN {<<>>}
    ELSE LET top == {r \in rows : \A q \in rows : q.Total <= r.Total}
         IN  UNION {{<<r>> \o t : t \in OrderingsByTotalDesc(rows \ {r})} : r \in top}

\* The ranking that gives rows of equal total the same position.
ranked_shared_places(rows) ==
    {[i \in DOMAIN df |->
        [position |-> 1 + Cardinality({j \in DOMAIN df : df[j].Total > df[i].Total}),
         no |-> df[i].no, p1 |-> df[i].p1, p2 |-> df[i].p2,
         r1 |-> df[i].r1, r2 |-> df[i].r2, Total |-> df[i].Total]] :
            df \in OrderingsByTotalDesc(rows)}

\* sort_values(<total>, ascending=False).reset_index(drop=True) followed by
\* insert(0, <position>, range(1, len(df) + 1)): every outcome.
ranked(rows) ==
    {[i \in DOMAIN df |->
        [position |-> i, no |-> df[i].no, p1 |-> df[i].p1, p2 |-> df[i].p2,
         r1 |-> df[i].r1, r2 |-> df[i].r2, Total |-> df[i].Total]] :
            df \in OrderingsByTotalDesc(rows)}

\* What a page has on the screen when it is done: a message, or its rows.
Screen(page, period, message, pair_keys, rows) ==
    [page |-> page, period |-> period, message |-> message, tab |-> "",
     pair_keys |-> pair_keys, rows |-> rows]

NoPeriod == <<>>

\* The rows of the sorted players frame with a display label: the sort by
\* display is not stable, so any of them can be the first.
rows_of_label(players_df, label) ==
    {players_df[i] : i \in {j \in DOMAIN players_df :
                               player_display_name(players_df[j]) = label}}

\* The period has start_date > end_date.
reversed(period) ==
    period.mode = "custom" /\ period.start_date[1] > period.end_date[1]

\* page_team_combiner with the two labels and the period chosen.
page_team_combiner(players_file0, results_file0, p1_label, p2_label, period, now) ==
    LET players_df == load_players(players_file0)
        results_df0 == load_results(results_file0)
    IN  IF Len(players_df) < 2
        THEN {Screen("team_combiner", NoPeriod,
                     "Need at least 2 players in the database.", {}, <<>>)}
        ELSE IF p1_label = p2_label
        THEN {Screen("team_combiner", NoPeriod,
                     "Please choose two different players.", {}, <<>>)}
        ELSE IF reversed(period)
        THEN {Screen("team_combiner", <<period>>,
                     "Start date must be before end date.", {}, <<>>)}
        ELSE UNION {{Screen("team_combiner", <<period>>, "", {},
                            <<TeamRow(1, rows[1].player_id, rows[2].player_id, res1, res2)>>) :
                        res1 \in points_of(results_df0, rows[1].player_id, period, now),
                        res2 \in points_of(results_df0, rows[2].player_id, period, now)} :
                    rows \in rows_of_label(players_df, p1_label)
                             \X rows_of_label(players_df, p2_label)}

\* The labels of the select boxes.
Labels(players_df) == {player_display_name(players_df[i]) : i \in DOMAIN players_df}

NoneLabel == <<"(None)">>

\* The row that .iloc[0] finds for every label: the sorted frame is built
\* once per run of a page, so a label stands for one row throughout.
FirstRows(players_df) ==
    {first \in [Labels(players_df) -> Range(players_df)] :
        \A label \in Labels(players_df) : first[label] \in rows_of_label(players_df, label)}

\* page_multi_team_report with the period, the labels of every team slot
\* chosen and the report button pressed.
page_multi_team_report(players_file0, results_file0, period, slots, now, previous) ==
    LET players_df == load_players(players_file0)
        results_df0 == load_results(results_file0)
        cache0 == player_points_cache_new(previous)
        Message(shown_period, message) ==
            {[screen |-> Screen("multi_team_report", shown_period, message, {}, <<>>),
              cache |-> cache0]}
        valid == {i \in DOMAIN slots : /\ slots[i][1] # NoneLabel
                                       /\ slots[i][2] # NoneLabel
                                       /\ slots[i][1] # slots[i][2]}
        Report(first) ==
            LET pids == {first[slots[i][1]].player_id : i \in valid}
                          \cup {first[slots[i][2]].player_id : i \in valid}
            IN  UNION {{[screen |-> Screen("multi_team_report", <<period>>, "", {}, df),
                         cache |-> cache] :
                           df \in ranked({TeamRow(i, first[slots[i][1]].player_id,
                                                  first[slots[i][2]].player_id,
                                                  cache[first[slots[i][1]].player_id],
                                                  cache[first[slots[i][2]].player_id]) :
                                             i \in valid})} :
                          cache \in get_pts(cache0, results_df0, pids, period, now)}
    IN  IF Len(players_df) < 2
        THEN Message(NoPeriod, "Need at least 2 players in the database.")
        ELSE IF reversed(period)
        THEN Message(<<period>>, "Start date must be before end date.")
        ELSE IF valid = {}
        THEN Message(<<period>>, "No valid teams selected yet.")
        ELSE UNION {Report(first) : first \in FirstRows(players_df)}

\* name_to_id[name]: the ids of the players with the full name, in the
\* order of the players file.
name_to_id(players_df, name) ==
    LET rows == SelectSeq(players_df, LAMBDA r : full_name(r) = name)
    IN  [i \in DOMAIN rows |-> rows[i].player_id]

\* str(res.get("teammate", "")).strip(): an empty cell is read as NaN and
\* becomes the text nan.
teammate_text(cell) == strip(IF cell.kind = "value" THEN cell.v ELSE <<"nan">>)

\* The pairs detected from the results.
pair_keys_of(players_df, results_df0) ==
    {sorted_pair(results_df0[i].player_id,
                 name_to_id(players_df, teammate_text(results_df0[i].teammate))[1]) :
        i \in {j \in DOMAIN results_df0 :
                  LET teammate == teammate_text(results_df0[j].teammate)
                      ids == name_to_id(players_df, teammate)
                  IN  /\ teammate # <<>>
                      /\ ids # <<>>
                      /\ ids[1] # results_df0[j].player_id}}

\* The category that takes a pair with one male athlete.
category_one_male(pa, pb) ==
    IF pa.gender = "Male" \/ pb.gender = "Male" THEN "Men"
    ELSE IF pa.gender = "Female" /\ pb.gender = "Female" THEN "Women"
    ELSE ""

\* Only same-gender pairs: Men, Women, or no category.
category(pa, pb) ==
    IF pa.gender = "Male" /\ pb.gender = "Male" THEN "Men"
    ELSE IF pa.gender = "Female" /\ pb.gender = "Female" THEN "Women"
    ELSE ""

\* page_avc_rankings with the category tab chosen.
page_avc_rankings(players_file0, results_file0, tab, now) ==
    LET players_df == load_players(players_file0)
        results_df0 == load_results(results_file0)
        pair_keys == pair_keys_of(players_df, results_df0)
        period == Rolling(<<now>>)
        in_tab == {key \in pair_keys :
                      LET pa == get_player_by_id(players_df, key[1])
                          pb == get_player_by_id(players_df, key[2])
                      IN  pa # None /\ pb # None /\ category(pa[1], pb[1]) = tab}
        pids == {key[1] : key \in in_tab} \cup {key[2] : key \in in_tab}
    IN  IF players_df = <<>> \/ results_df0 = <<>>
        THEN {Screen("avc_rankings", NoPeriod,
                     "No players or results available yet.", {}, <<>>)}
        ELSE IF pair_keys = {}
        THEN {Screen("avc_rankings", NoPeriod, "No eligible teams found.", {}, <<>>)}
        ELSE IF in_tab = {}
        THEN {Screen("avc_rankings", <<period>>, "No teams in this category.",
                     pair_keys, <<>>)}
        ELSE UNION {{[Screen("avc_rankings", <<period>>, "", pair_keys, df)
                         EXCEPT !.tab = tab] :
                        df \in ranked({TeamRow(0, key[1], key[2], cache[key[1]], cache[key[2]]) :
                                          key \in in_tab})} :
                       cache \in Caches(results_df0, pids, period, now)}

\* Inputs of the pages.

\* An empty cell of a column of strings, and one of a column of texts.
BlankString == [kind |-> "blank", v |-> ""]
BlankText == [kind |-> "blank", v |-> <<>>]

PlayerRow(pid, first, last, gender) ==
    [player_id |-> pid, first_name |-> Cell(first), last_name |-> Cell(last),
     gender |-> IF gender = "" THEN BlankString ELSE Cell(gender), fivb_id |-> BlankString]

ResultRow(id, pid, d, et, p, teammate) ==
    [result_id |-> id, player_id |-> pid, date |-> d, event_type |-> et, points |-> p,
     teammate |-> teammate]

AnnLee == <<"Ann", " ", "Lee">>
BoKim == <<"Bo", " ", "Kim">>

\* The periods a page is asked for: the rolling window at the reference
\* day, the custom window of its last two days, and that window reversed.
PagePeriods ==
    {Rolling(<<RefDay>>), Custom(<<RefDay - 1>>, <<RefDay>>), Custom(<<RefDay>>, <<RefDay - 1>>)}

\* The numbers of team slots a report is asked for.
TeamNumbers == {1, 2}

\* Team inputs: three athletes of different names, the third of either
\* gender; result i is an AVC result of i points dated i days before the
\* reference day, of any athlete; the first athlete names the second as
\* teammate, the others name the first.
Partner(pid) == IF pid = "p1" THEN BoKim ELSE AnnLee

TeamsFile(n, f) ==
    [i \in 1..n |->
        ResultRow(i, f[i], Cell(RefDay - i), "AVC", Cell(i), Cell(Partner(f[i])))]

InitTeams ==
    /\ \E g \in {"Male", "Female"} :
          players_file = <<PlayerRow("p1", "Ann", "Lee", "Male"),
                           PlayerRow("p2", "Bo", "Kim", "Male"),
                           PlayerRow("p3", "Cy", "Oh", g)>>
    /\ \E n \in 0..MaxTeamResults :
          \E f \in [1..n -> Range(PlayerIds)] :
             results_file = TeamsFile(n, f)
    /\ shown = <<>>
    /\ NoSession
    /\ today = RefDay
    /\ player_id = "p1"
    /\ mode = "365"
    /\ ref_date = None
    /\ start_date = None
    /\ end_date = None
    /\ result = <<>>
    /\ locals = <<>>
    /\ results_df = <<>>

\* Ranking inputs: three athletes, the first called Ann Lee, the second Ann
\* Lee or Bo Kim, the third Bo Kim or Cy Oh, with genders Male, Female, none and one that is neither;
\* results of any athlete inside the rolling window whose teammate cell is a
\* name, a name followed by a space, or empty.
RankingGenders == <<{"Male", "Female"}, {"Male", "Female", ""}, {"Male", "Female", "Mixed"}>>

RankingNames ==
    <<{<<"Ann", "Lee">>}, {<<"Ann", "Lee">>, <<"Bo", "Kim">>}, {<<"Bo", "Kim">>, <<"Cy", "Oh">>}>>

TeammateCells == {Cell(AnnLee), Cell(BoKim), Cell(BoKim \o <<" ">>), BlankText}

RankingsFile(n, f) ==
    [i \in 1..n |-> ResultRow(i, f[i][1], Cell(RefDay - i), "AVC", Cell(i), f[i][2])]

InitRankings ==
    /\ \/ players_file = <<>>
       \/ \E g1 \in RankingGenders[1], g2 \in RankingGenders[2], g3 \in RankingGenders[3],
             n1 \in RankingNames[1], n2 \in RankingNames[2], n3 \in RankingNames[3] :
             players_file = <<PlayerRow("p1", n1[1], n1[2], g1),
                              PlayerRow("p2", n2[1], n2[2], g2),
                              PlayerRow("p3", n3[1], n3[2], g3)>>
    /\ \E n \in 0..MaxTeamResults :
          \E f \in [1..n -> Range(PlayerIds) \X TeammateCells] :
             results_file = RankingsFile(n, f)
    /\ shown = <<>>
    /\ NoSession
    /\ today = RefDay
    /\ player_id = "p1"
    /\ mode = "365"
    /\ ref_date = None
    /\ start_date = None
    /\ end_date = None
    /\ result = <<>>
    /\ locals = <<>>
    /\ results_df = <<>>

\* One run of the Team Combiner page.
TeamCombiner ==
    /\ shown = <<>>
    /\ LET labels == Labels(load_players(players_file))
       IN  \E p1_label \in labels, p2_label \in labels, period \in PagePeriods :
              \E screen \in page_team_combiner(players_file, results_file,
                                                p1_label, p2_label, period, today) :
                 shown' = <<screen>>
    /\ UNCHANGED <<results_file, results_df, players_file, player_id, mode, ref_date,
                   start_date, end_date, today, result, locals, player_points_cache,
                   store_vars>>

\* One run of the Multi-Team Report page that ends with the report button:
\* its screen comes before the screens shown so far.
GenerateReport ==
    /\ LET options == Labels(load_players(players_file)) \cup {NoneLabel}
       IN  \E period \in PagePeriods, num_teams \in TeamNumbers :
              \E slots \in [1..num_teams -> options \X options] :
                 \E run \in page_multi_team_report(players_file, results_file,
                                                    period, slots, today,
                                                    player_points_cache) :
                    /\ shown' = <<run.screen>> \o shown
                    /\ player_points_cache' = run.cache
    /\ UNCHANGED <<results_file, results_df, players_file, player_id, mode, ref_date,
                   start_date, end_date, today, result, locals, store_vars>>

\* The first run of the Multi-Team Report page.
MultiTeamReport == shown = <<>> /\ GenerateReport

\* A run of the Multi-Team Report page after a report was generated.
MultiTeamReportAgain ==
    /\ Len(shown) = 1
    /\ shown[1].page = "multi_team_report"
    /\ GenerateReport

\* One run of the AVC Rankings page.
Rankings ==
    /\ shown = <<>>
    /\ \E tab \in {"Men", "Women"} :
          \E screen \in page_avc_rankings(players_file, results_file, tab, today) :
             shown' = <<screen>>
    /\ UNCHANGED <<results_file, results_df, players_file, player_id, mode, ref_date,
                   start_date, end_date, today, result, locals, player_points_cache,
                   store_vars>>

NextTeams == TeamCombiner \/ MultiTeamReport \/ Rankings

\* Report inputs: the first two athletes of the team inputs and their
\* results.
InitReports ==
    /\ players_file = <<PlayerRow("p1", "Ann", "Lee", "Male"),
                        PlayerRow("p2", "Bo", "Kim", "Male")>>
    /\ \E n \in 0..MaxTeamResults :
          \E f \in [1..n -> {"p1", "p2"}] :
             results_file = TeamsFile(n, f)
    /\ shown = <<>>
    /\ NoSession
    /\ today = RefDay
    /\ player_id = "p1"
    /\ mode = "365"
    /\ ref_date = None
    /\ start_date = None
    /\ end_date = None
    /\ result = <<>>
    /\ locals = <<>>
    /\ results_df = <<>>

NextReports == MultiTeamReport \/ MultiTeamReportAgain

SpecReports == InitReports /\ [][NextReports]_vars

SpecTeams == InitTeams /\ [][NextTeams]_vars

NextRankings == Rankings

SpecRankings == InitRankings /\ [][NextRankings]_vars

-----------------------------------------------------------------------------
\* The store: players.csv and results.csv behind github_get_file and
\* github_put_file, and the operations that write them. With local files
\* every read succeeds: those are the behaviours in which every status is
\* "ok".

\* The outcomes of reading a file from the store: read (or found missing),
\* or an error other than not-found.
Statuses == {"ok", "error"}

\* github_get_file: the content, or None when the file is missing (an
\* absent file and one without rows are both <<>>) and when the read fails.
github_get_file(file, status) ==
    IF status = "error" \/ file = <<>> THEN None ELSE <<file>>

\* github_put_file: reads the file for its sha, then puts the content. The
\* store takes a put without sha only for a file that does not exist yet.
github_put_file(file, content, status) ==
    IF github_get_file(file, status) # None \/ file = <<>> THEN content ELSE file

\* The texts that read_csv takes for a missing value.
NaValues == {"", "nan", "NaN", "NA", "N/A", "null", "NULL", "None"}

\* to_csv of a string cell, as read_csv will see it: empty when the string
\* is one that read_csv takes for a missing value.
to_csv_string(v) == IF v \in NaValues THEN BlankString ELSE Cell(v)

\* to_csv of a text cell.
to_csv_text(t) == IF t = <<>> \/ (Len(t) = 1 /\ t[1] \in NaValues) THEN BlankText ELSE Cell(t)

\* save_players: to_csv of the frame.
to_csv_players(players_df) ==
    [i \in DOMAIN players_df |->
        [player_id |-> players_df[i].player_id,
         first_name |-> to_csv_string(players_df[i].first_name),
         last_name |-> to_csv_string(players_df[i].last_name),
         gender |-> to_csv_string(players_df[i].gender),
         fivb_id |-> to_csv_string(players_df[i].fivb_id)]]

\* save_results: to_csv of the frame; a missing date or number is an empty
\* cell.
to_csv_results(results_df0) ==
    [i \in DOMAIN results_df0 |->
        [results_df0[i] EXCEPT
            !.date = IF @ = NaT THEN BlankCell ELSE Cell(@[1]),
            !.points = IF @ = NaN THEN BlankCell ELSE Cell(@[1]),
            !.teammate = IF @.kind = "value" THEN to_csv_text(@.v) ELSE BlankText]]

\* load_players and load_results of a page run, with the status of the read.
load_players_from(file, status) ==
    LET content == github_get_file(file, status)
    IN  IF content = None THEN <<>> ELSE load_players(content[1])

load_results_from(file, status) ==
    LET content == github_get_file(file, status)
    IN  IF content = None THEN <<>> ELSE load_results(content[1])

\* new_id(): uuid4 gives an id that no earlier call gave; the ids are
\* numbered in the order of the calls (a repeat of 122 random bits is left
\* out).
new_id(calls) == calls + 1

\* first_name + " " + last_name, as the pages build it without strip().
first_last(row) == Word(row.first_name) \o <<" ">> \o Word(row.last_name)

\* The row of a new player with the fields of the form after strip().
new_player(pid, first, last, fivb) ==
    [player_id |-> pid, first_name |-> first, last_name |-> last, gender |-> "",
     fivb_id |-> fivb]

\* The edit that gives the row a new id.
edit_player_row_new_id(row, first, last, calls) ==
    [row EXCEPT !.player_id = new_id(calls), !.first_name = first, !.last_name = last]

\* players_df.loc[idx, ...] = ...: every field of the form but player_id.
edit_player_row(row, first, last, calls) ==
    [row EXCEPT !.first_name = first, !.last_name = last]

\* The names the player form is filled with: a first name and no last
\* name (the players the store starts with have both).
FormNames == {<<"Bo", "">>}

\* The bound on the ids new_id() returns in a behaviour.
MaxUuids == 4

\* What the store operations leave alone.
page_vars == <<results_df, shown, player_id, mode, ref_date, start_date, end_date, today,
               result, locals, player_points_cache>>

\* The rows the player select box can give: the mapping from label to id
\* is built over the frame sorted by name, so a label shared by several
\* players stands for one of them.
selected_players(players_df) ==
    UNION {{get_player_by_id(players_df, row.player_id)[1] :
               row \in rows_of_label(players_df, label)} : label \in Labels(players_df)}

\* Player Manager, "<New Player>" selected and the player form submitted.
AddPlayer ==
    /\ uuids < MaxUuids
    /\ \E read \in Statuses, put \in Statuses, name \in FormNames :
          LET players_df == load_players_from(players_file, read)
              pid == new_id(uuids)
              saved == Append(players_df, new_player(pid, name[1], name[2], ""))
          IN  /\ players_file' = github_put_file(players_file, to_csv_players(saved), put)
              /\ uuids' = uuids + 1
    /\ UNCHANGED <<results_file, uploaded_file, page_vars>>

\* Player Manager, a player selected and the player form submitted.
EditPlayer ==
    /\ \E read \in Statuses, put \in Statuses, name \in FormNames :
          LET players_df == load_players_from(players_file, read)
          IN  \E selected \in selected_players(players_df) :
                    LET idx == CHOOSE i \in DOMAIN players_df :
                                  /\ players_df[i].player_id = selected.player_id
                                  /\ \A j \in 1..(i - 1) :
                                        players_df[j].player_id # selected.player_id
                        saved == [players_df EXCEPT
                                     ![idx] = edit_player_row(@, name[1], name[2], uuids)]
                    IN  players_file' =
                            github_put_file(players_file, to_csv_players(saved), put)
    /\ UNCHANGED <<results_file, uuids, uploaded_file, page_vars>>

\* The teammate texts of the teammate select box of a player: none, or
\* the part of another player's label before " (FIVB", stripped.
teammate_choices(players_df, player_row) ==
    {<<>>} \cup {strip(first_last(players_df[i])) :
                    i \in {j \in DOMAIN players_df :
                              players_df[j].player_id # player_row.player_id}}

\* The first player whose first_name + " " + last_name is the text.
teammate_rows(players_df, teammate) ==
    SelectSeq(players_df, LAMBDA r : first_last(r) = teammate)

\* A row of the results frame as the forms build it.
new_result(id, pid, d, et, p, teammate) ==
    [result_id |-> id, player_id |-> pid, date |-> <<d>>, event_type |-> et,
     points |-> <<p>>, teammate |-> Cell(teammate)]

\* The rows Add Result appends for the player and the teammate text chosen.
added_results(players_df, player_row, teammate, d, et, p, calls) ==
    LET new_result_A == new_result(new_id(calls), player_row.player_id, d, et, p, teammate)
        teammate_row_df == teammate_rows(players_df, teammate)
    IN  IF teammate # <<>> /\ teammate_row_df # <<>>
        THEN <<new_result_A,
               new_result(new_id(calls + 1), teammate_row_df[1].player_id, d, et, p,
                          first_last(player_row))>>
        ELSE <<new_result_A>>

\* The points the Edit Result form is filled with (Add Result gives 1).
FormPoints == {2}

\* Player Manager, a player selected and the Add Result form submitted.
AddResult ==
    /\ \E read_players \in Statuses, read_results \in Statuses, put \in Statuses :
          LET players_df == load_players_from(players_file, read_players)
              results_df0 == load_results_from(results_file, read_results)
          IN  \E player_row \in selected_players(players_df) :
                     \E teammate \in teammate_choices(players_df, player_row) :
                        LET added == added_results(players_df, player_row, teammate,
                                                   RefDay, "AVC", 1, uuids)
                        IN  /\ uuids + Len(added) <= MaxUuids
                            /\ results_file' =
                                  github_put_file(results_file,
                                                  to_csv_results(results_df0 \o added), put)
                            /\ uuids' = uuids + Len(added)
    /\ UNCHANGED <<players_file, uploaded_file, page_vars>>

\* The results frame after the Edit Result form was submitted for the row
\* edit_row of the player, with the points and the teammate text chosen
\* (season, date, event type, tournament, rank and prize are left as they
\* were).
edited_results(players_df, results_df0, player_row, edit_row, points_edit, teammate_edit) ==
    LET own == [i \in DOMAIN results_df0 |->
                   IF results_df0[i].result_id = edit_row.result_id
                   THEN [results_df0[i] EXCEPT !.points = <<points_edit>>,
                                               !.teammate = Cell(teammate_edit)]
                   ELSE results_df0[i]]
        orig_teammate == edit_row.teammate
        tm_row == IF orig_teammate.kind = "value"
                  THEN teammate_rows(players_df, orig_teammate.v)
                  ELSE <<>>
        mirrored(r) ==
            /\ r.player_id = tm_row[1].player_id
            /\ r.teammate = Cell(first_last(player_row))
            /\ r.date # NaT
            /\ r.date = edit_row.date
            /\ r.event_type = edit_row.event_type
            /\ r.points # NaN
            /\ r.points = edit_row.points
    IN  IF /\ orig_teammate.kind = "value"
           /\ orig_teammate.v # <<>>
           /\ orig_teammate.v = teammate_edit
           /\ tm_row # <<>>
        THEN [i \in DOMAIN own |->
                 IF mirrored(own[i]) THEN [own[i] EXCEPT !.points = <<points_edit>>]
                 ELSE own[i]]
        ELSE own

\* Player Manager, a player and one of its results selected and the Edit
\* Result form submitted.
EditResult ==
    /\ \E read_players \in Statuses, read_results \in Statuses, put \in Statuses :
          LET players_df == load_players_from(players_file, read_players)
              results_df0 == load_results_from(results_file, read_results)
          IN  \E player_row \in selected_players(players_df), j \in DOMAIN results_df0 :
                     /\ results_df0[j].player_id = player_row.player_id
                     /\ results_df0[j].date # NaT
                     /\ results_df0[j].points # NaN
                     /\ \E points_edit \in FormPoints,
                           teammate_edit \in teammate_choices(players_df, player_row) :
                           results_file' =
                               github_put_file(results_file,
                                   to_csv_results(edited_results(players_df, results_df0,
                                       player_row, results_df0[j], points_edit,
                                       teammate_edit)),
                                   put)
    /\ UNCHANGED <<players_file, uuids, uploaded_file, page_vars>>

\* str(cell).strip() of a cell of the uploaded sheet: an empty cell is NaN
\* and gives the text nan, a cell of spaces gives the empty text.
str_strip(cell) ==
    IF cell.kind = "blank" THEN "nan" ELSE IF cell.v = " " THEN "" ELSE cell.v

\* The mapping with one more key.
with_key(mapping, key, value) ==
    [k \in DOMAIN mapping \cup {key} |-> IF k = key THEN value ELSE mapping[k]]

RECURSIVE import_players(_, _, _, _)
\* The first loop of the import over the rows of the sheet: the players
\* frame, fivb_to_player_id and the number of ids given when it is done.
import_players(rows, players_df, fivb_to_player_id, calls) ==
    IF rows = <<>>
    THEN [players_df |-> players_df, fivb_to_player_id |-> fivb_to_player_id,
          calls |-> calls]
    ELSE LET row == Head(rows)
             fivb == str_strip(row.fivb_id)
             existing == SelectSeq(players_df, LAMBDA r : r.fivb_id = fivb)
         IN  IF fivb = "" \/ fivb \in DOMAIN fivb_to_player_id
             THEN import_players(Tail(rows), players_df, fivb_to_player_id, calls)
             ELSE IF existing = <<>>
             THEN import_players(Tail(rows),
                                 Append(players_df,
                                        new_player(new_id(calls), str_strip(row.first_name),
                                                   str_strip(row.last_name), fivb)),
                                 with_key(fivb_to_player_id, fivb, new_id(calls)),
                                 calls + 1)
             ELSE import_players(Tail(rows), players_df,
                                 with_key(fivb_to_player_id, fivb, existing[1].player_id),
                                 calls)

RECURSIVE import_results(_, _, _)
\* The second loop of the import: new_results_list.
import_results(rows, fivb_to_player_id, calls) ==
    IF rows = <<>> THEN <<>>
    ELSE LET row == Head(rows)
             fivb == str_strip(row.fivb_id)
         IN  IF fivb \notin DOMAIN fivb_to_player_id
             THEN import_results(Tail(rows), fivb_to_player_id, calls)
             ELSE <<new_result(new_id(calls), fivb_to_player_id[fivb], row.date,
                               row.event_type, row.points, <<"nan">>)>>
                  \o import_results(Tail(rows), fivb_to_player_id, calls + 1)

\* The FIVB id of a player of the store, and one of no player.
StoredFivbId == "F1"
NewFivbId == "F2"

\* A row of the uploaded sheet: the result of Cy Oh on the reference day,
\* with the FIVB id cell given and an empty teammate cell.
SheetRow(fivb_id) ==
    [fivb_id |-> fivb_id, first_name |-> Cell("Cy"), last_name |-> Cell("Oh"),
     date |-> RefDay, event_type |-> "AVC", points |-> 1]

\* The uploaded sheets: a row with an empty id cell; two rows with the id
\* of a stored player; a row with an id cell of spaces followed by a row
\* with a new id.
Sheets ==
    {<<SheetRow(BlankString)>>,
     <<SheetRow(Cell(StoredFivbId)), SheetRow(Cell(StoredFivbId))>>,
     <<SheetRow(Cell(" ")), SheetRow(Cell(NewFivbId))>>}

\* Import page, the sheet uploaded and the import button pressed.
ImportExcel ==
    /\ \E read_players \in Statuses, read_results \in Statuses,
          put_players \in Statuses, put_results \in Statuses :
          LET players_df == load_players_from(players_file, read_players)
              results_df0 == load_results_from(results_file, read_results)
              first == import_players(uploaded_file, players_df, <<>>, uuids)
              new_results_list == import_results(uploaded_file, first.fivb_to_player_id,
                                                 first.calls)
          IN  /\ first.calls + Len(new_results_list) <= MaxUuids
              /\ players_file' = github_put_file(players_file,
                                                 to_csv_players(first.players_df),
                                                 put_players)
              /\ results_file' =
                    IF new_results_list # <<>>
                    THEN github_put_file(results_file,
                                         to_csv_results(results_df0 \o new_results_list),
                                         put_results)
                    ELSE results_file
              /\ uuids' = first.calls + Len(new_results_list)
    /\ UNCHANGED <<uploaded_file, page_vars>>

\* The store holds two players, created with the ids of the first two
\* calls of new_id(), the second with a FIVB id, and no results; a sheet is
\* at hand for the import page.
InitStore ==
    /\ players_file = to_csv_players(<<new_player(1, "Ann", "Lee", ""),
                                        new_player(2, "Bo", "Kim", StoredFivbId)>>)
    /\ results_file = <<>>
    /\ uploaded_file \in Sheets
    /\ uuids = 2
    /\ player_points_cache = <<>>
    /\ shown = <<>>
    /\ today = RefDay
    /\ player_id = "p1"
    /\ mode = "365"
    /\ ref_date = None
    /\ start_date = None
    /\ end_date = None
    /\ result = <<>>
    /\ locals = <<>>
    /\ results_df = <<>>

NextStore == AddPlayer \/ EditPlayer \/ AddResult \/ EditResult \/ ImportExcel

SpecStore == InitStore /\ [][NextStore]_vars

\* The result forms alone, on the players of the store.
NextResults == AddResult \/ EditResult

SpecResults == InitStore /\ [][NextResults]_vars

-----------------------------------------------------------------------------
\* What the properties speak about.

\* The call has returned.
Returned == result # <<>>

\* The breakdown returned.
Ret == result[1]

\* The rows of the results file that belong to the athlete of the call.
AthleteRows == {results_file[i] : i \in {j \in DOMAIN results_file :
                                           results_file[j].player_id = player_id}}

\* The reference date of a rolling window.
RefOfCall == IF ref_date = None THEN today ELSE ref_date[1]

\* The window set: the rows of window_results.
WindowSet == Range(Ret.window_results)

\* The rows of selected_results.
SelectedSet == Range(Ret.selected_results)

\* The rows of a set with one of the given event types.
OfTypes(rows, types) == {r \in rows : r.event_type \in types}

\* The bucket definitions of the two policies.
PolicyA == [tag |-> "AVC_MZ_used", b1 |-> {"AVC", "AVC Multi/Zonal"}, b2 |-> {"FIVB"}]
PolicyB == [tag |-> "Other_MZ_used", b1 |-> {"AVC"}, b2 |-> {"FIVB", "Other Multi/Zonal"}]

RECURSIVE SetSum(_)
\* The sum of the points of a set of rows.
SetSum(rows) ==
    IF rows = {} THEN 0
    ELSE LET r == CHOOSE x \in rows : TRUE IN r.points + SetSum(rows \ {r})

RECURSIVE LargestSum(_, _)
\* The sum of the k largest points values of a set of rows (of all of them
\* when there are fewer than k).
LargestSum(rows, k) ==
    IF rows = {} \/ k = 0 THEN 0
    ELSE LET r == CHOOSE x \in rows : \A y \in rows : y.points <= x.points
         IN  r.points + LargestSum(rows \ {r}, k - 1)

\* The total of a policy on the window set, from the bucket definitions.
PolicyTotal(policy) ==
    LargestSum(OfTypes(WindowSet, policy.b1), 4) + LargestSum(OfTypes(WindowSet, policy.b2), 4)

\* The policy whose tag the breakdown carries.
WinningPolicy == IF Ret.scenario = "AVC_MZ_used" THEN PolicyA ELSE PolicyB

-----------------------------------------------------------------------------
\* C1: whenever the window set is non-empty, total_points is the larger of
\* the two policy totals, the tag is AVC_MZ_used exactly when
\* total_A >= total_B and Other_MZ_used exactly when total_B > total_A, so
\* equal totals resolve to Policy A.
C1_TieBreak ==
    (Returned /\ Ret.window_results # <<>>) =>
        LET total_A == PolicyTotal(PolicyA)
            total_B == PolicyTotal(PolicyB)
        IN  /\ Ret.total_points = IF total_A >= total_B THEN total_A ELSE total_B
            /\ (Ret.scenario = "AVC_MZ_used") <=> (total_A >= total_B)
            /\ (Ret.scenario = "Other_MZ_used") <=> (total_B > total_A)

\* C1 witness: both zonal variants count, the totals are equal and the call
\* returned the Policy A tag.
C1_Witness ==
    /\ Returned
    /\ OfTypes(WindowSet, {"AVC Multi/Zonal"}) # {}
    /\ OfTypes(WindowSet, {"Other Multi/Zonal"}) # {}
    /\ PolicyTotal(PolicyA) = PolicyTotal(PolicyB)
    /\ PolicyTotal(PolicyA) > LargestSum(OfTypes(WindowSet, {"AVC"}), 4)
                              + LargestSum(OfTypes(WindowSet, {"FIVB"}), 4)
    /\ Ret.scenario = "AVC_MZ_used"

\* C2: no selection of at most 4 results from bucket 1 and at most 4 from
\* bucket 2 of one policy has a points sum above the total_points returned.
C2_Optimal ==
    (Returned /\ Ret.window_results # <<>>) =>
        \A policy \in {PolicyA, PolicyB} :
            \A T1 \in SUBSET OfTypes(WindowSet, policy.b1) :
                \A T2 \in SUBSET OfTypes(WindowSet, policy.b2) :
                    (Cardinality(T1) <= 4 /\ Cardinality(T2) <= 4) =>
                        SetSum(T1) + SetSum(T2) <= Ret.total_points

\* C2 witness: a bucket holds more than 4 results of different points, so
\* the choice of the 4 counted decides the total, and Policy B won.
C2_Witness ==
    /\ Returned
    /\ Ret.scenario = "Other_MZ_used"
    /\ Cardinality(OfTypes(WindowSet, PolicyB.b2)) > 4
    /\ Ret.total_points < SetSum(OfTypes(WindowSet, PolicyB.b1 \cup PolicyB.b2))

\* pts is the sum of the 4 largest points of rows, and of all when they are
\* 4 or fewer.
BucketSumRight(pts, rows) ==
    /\ pts = LargestSum(rows, 4)
    /\ Cardinality(rows) <= 4 => pts = SetSum(rows)

\* C3: every bucket subtotal the call computes, for either policy, is the
\* sum of the 4 largest points among the window-set results of the bucket's
\* event types, and the sum of all of them when they are 4 or fewer (0 for
\* an empty bucket).
C3_BucketSums ==
    (Returned /\ Ret.window_results # <<>>) =>
        /\ locals # <<>>
        /\ BucketSumRight(locals[1].bucket1_A_pts, OfTypes(WindowSet, PolicyA.b1))
        /\ BucketSumRight(locals[1].bucket2_A_pts, OfTypes(WindowSet, PolicyA.b2))
        /\ BucketSumRight(locals[1].bucket1_B_pts, OfTypes(WindowSet, PolicyB.b1))
        /\ BucketSumRight(locals[1].bucket2_B_pts, OfTypes(WindowSet, PolicyB.b2))
        /\ locals[1].total_A = locals[1].bucket1_A_pts + locals[1].bucket2_A_pts
        /\ locals[1].total_B = locals[1].bucket1_B_pts + locals[1].bucket2_B_pts

\* C3 witness: bucket 1 of Policy A holds more than 4 results and drops the
\* smallest, bucket 2 is empty and sums to 0, and bucket 1 of Policy B holds
\* fewer than 4.
C3_Witness ==
    /\ Returned
    /\ locals # <<>>
    /\ Cardinality(OfTypes(WindowSet, PolicyA.b1)) > 4
    /\ locals[1].bucket1_A_pts < SetSum(OfTypes(WindowSet, PolicyA.b1))
    /\ OfTypes(WindowSet, PolicyA.b2) = {}
    /\ locals[1].bucket2_A_pts = 0
    /\ Cardinality(OfTypes(WindowSet, PolicyB.b1)) < 4

\* chosen is a choice of the 4 best of rows (of all when they are fewer).
TopChoice(chosen, rows) ==
    /\ chosen \subseteq rows
    /\ Cardinality(chosen) = (IF Cardinality(rows) < 4 THEN Cardinality(rows) ELSE 4)
    /\ SetSum(chosen) = LargestSum(rows, 4)

\* C4: selected_results holds, for each bucket of the winning policy, a
\* top-4 choice of the bucket's window-set results: at most 4 per bucket, at
\* most 8 in all, every one a row of the window set, none twice.
C4_Selected ==
    Returned =>
        LET sel == Ret.selected_results
        IN  /\ Len(sel) <= 8
            /\ \A i \in DOMAIN sel : sel[i] \in WindowSet
            /\ \A i, j \in DOMAIN sel : i # j => sel[i].result_id # sel[j].result_id
            /\ Cardinality(OfTypes(SelectedSet, WinningPolicy.b1)) <= 4
            /\ Cardinality(OfTypes(SelectedSet, WinningPolicy.b2)) <= 4
            /\ Ret.window_results # <<>> =>
                /\ TopChoice(OfTypes(SelectedSet, WinningPolicy.b1),
                             OfTypes(WindowSet, WinningPolicy.b1))
                /\ TopChoice(OfTypes(SelectedSet, WinningPolicy.b2),
                             OfTypes(WindowSet, WinningPolicy.b2))
                /\ SelectedSet = OfTypes(SelectedSet, WinningPolicy.b1 \cup WinningPolicy.b2)

\* C4 witness: bucket 1 of the winning policy holds more than 4 window-set
\* results of which 4 are selected, next to selected results of bucket 2.
C4_Witness ==
    /\ Returned
    /\ Cardinality(OfTypes(WindowSet, WinningPolicy.b1)) > 4
    /\ Cardinality(OfTypes(SelectedSet, WinningPolicy.b1)) = 4
    /\ OfTypes(SelectedSet, WinningPolicy.b2) # {}

\* C5: the selected results match the winning policy: under AVC_MZ_used
\* none is Other Multi/Zonal, under Other_MZ_used none is AVC Multi/Zonal,
\* and no breakdown selects both zonal variants.
C5_SelectedTypes ==
    Returned =>
        /\ Ret.scenario = "AVC_MZ_used" =>
              \A r \in SelectedSet : r.event_type \in {"AVC", "AVC Multi/Zonal", "FIVB"}
        /\ Ret.scenario = "Other_MZ_used" =>
              \A r \in SelectedSet : r.event_type \in {"AVC", "FIVB", "Other Multi/Zonal"}
        /\ ~ (/\ OfTypes(SelectedSet, {"AVC Multi/Zonal"}) # {}
              /\ OfTypes(SelectedSet, {"Other Multi/Zonal"}) # {})

\* C5 witness: Policy B won with an Other Multi/Zonal result selected while
\* the window set holds an AVC Multi/Zonal result.
C5_Witness ==
    /\ Returned
    /\ Ret.scenario = "Other_MZ_used"
    /\ OfTypes(SelectedSet, {"Other Multi/Zonal"}) # {}
    /\ OfTypes(WindowSet, {"AVC Multi/Zonal"}) # {}

\* The window the call asks for, when it asks for one.
WindowRequested == mode = "365" \/ (start_date # None /\ end_date # None)
WindowStart == IF mode = "365" THEN RefOfCall - 365 ELSE start_date[1]
WindowEnd == IF mode = "365" THEN RefOfCall ELSE end_date[1]

\* The stored row a window-set row comes from: same result, athlete, event
\* type and date, points as stored or 0 when the stored cell is no number.
ComesFrom(w, row) ==
    /\ row.result_id = w.result_id
    /\ row.player_id = w.player_id
    /\ row.event_type = w.event_type
    /\ row.date.kind = "value"
    /\ w.date = <<row.date.v>>
    /\ w.points = (IF row.points.kind = "value" THEN row.points.v ELSE 0)

\* C6: every row of window_results is one of the athlete's stored rows and
\* has a date d with start <= d <= end; a row whose date cell is empty or
\* unparseable is in no window set.
C6_WindowSubset ==
    Returned =>
        /\ \A w \in WindowSet :
              /\ WindowRequested
              /\ \E row \in AthleteRows :
                    /\ ComesFrom(w, row)
                    /\ WindowStart <= row.date.v
                    /\ row.date.v <= WindowEnd
        /\ \A row \in AthleteRows :
              row.date.kind # "value" =>
                  \A w \in WindowSet : w.result_id # row.result_id

\* C6 witness: the athlete has a row with an unparseable date, a row dated
\* on a bound of a custom window, and the window set is not empty.
C6_Witness ==
    /\ Returned
    /\ mode = "custom"
    /\ \E row \in AthleteRows : row.date.kind = "junk"
    /\ \E w \in WindowSet : w.date = end_date

\* C7: in rolling mode with reference date R a dated result is in the
\* window set if and only if R - 365 <= d <= R.
C7_RollingWindow ==
    (Returned /\ mode = "365") =>
        \A row \in AthleteRows :
            row.date.kind = "value" =>
                ((\E w \in WindowSet : ComesFrom(w, row))
                    <=> (RefOfCall - 365 <= row.date.v /\ row.date.v <= RefOfCall))

\* C7 witness: in rolling mode a result dated R - 365 is in the window set
\* and one dated R - 366 is not.
C7_Witness ==
    /\ Returned
    /\ mode = "365"
    /\ \E w \in WindowSet : w.date = <<RefOfCall - 365>>
    /\ \E row \in AthleteRows :
          /\ row.date = Cell(RefOfCall - 366)
          /\ \A w \in WindowSet : w.result_id # row.result_id

\* A zero-filled breakdown with the given tag and no rows in either list.
ZeroFilled(tag) ==
    /\ Ret.scenario = tag
    /\ Ret.total_points = 0
    /\ Ret.bucket1_points = 0
    /\ Ret.bucket2_points = 0
    /\ Ret.selected_results = <<>>

\* C8: a custom window with start > end makes the call return a zero-filled
\* breakdown tagged invalid_period, whatever the results are. Stated for an
\* athlete with at least one result, whom the no-data return does not
\* concern.
C8_ReversedWindowInvalid ==
    (/\ Returned
     /\ AthleteRows # {}
     /\ mode = "custom"
     /\ start_date # None
     /\ end_date # None
     /\ start_date[1] > end_date[1]) => ZeroFilled("invalid_period")

\* C9 as stated: a custom window with a missing bound returns the
\* zero-filled invalid_period breakdown with empty lists.
C9_MissingBoundAlwaysInvalid ==
    (Returned /\ mode = "custom" /\ (start_date = None \/ end_date = None)) =>
        (ZeroFilled("invalid_period") /\ Ret.window_results = <<>>)

\* C9 amended: for an athlete with at least one result, a custom window
\* with a missing bound performs no scoring and returns the zero-filled
\* invalid_period breakdown with empty selected and window lists.
C9_MissingBoundInvalid ==
    (/\ Returned
     /\ mode = "custom"
     /\ (start_date = None \/ end_date = None)
     /\ AthleteRows # {}) =>
        /\ ZeroFilled("invalid_period")
        /\ Ret.window_results = <<>>
        /\ locals = <<>>

\* C9 witness: the athlete has a dated result, only the start bound is
\* missing, and the call returned invalid_period.
C9_Witness ==
    /\ Returned
    /\ mode = "custom"
    /\ start_date = None
    /\ end_date # None
    /\ \E row \in AthleteRows : row.date.kind = "value" /\ row.date.v <= end_date[1]
    /\ Ret.scenario = "invalid_period"

\* The athlete's stored rows dated inside the requested window.
RowsInWindow ==
    {row \in AthleteRows :
        row.date.kind = "value" /\ WindowStart <= row.date.v /\ row.date.v <= WindowEnd}

\* C10: an athlete without results gets no_results, an athlete with results
\* of which none is in the requested window gets no_results_in_period,
\* neither tag is returned in the other situation, and both come with zero
\* totals and an empty selected list.
C10_EmptyTags ==
    Returned =>
        /\ AthleteRows = {} => ZeroFilled("no_results")
        /\ (AthleteRows # {} /\ WindowRequested /\ RowsInWindow = {}) =>
              ZeroFilled("no_results_in_period")
        /\ Ret.scenario = "no_results" => AthleteRows = {}
        /\ Ret.scenario = "no_results_in_period" =>
              (AthleteRows # {} /\ WindowRequested /\ RowsInWindow = {})

\* C10 witness: the athlete has a dated result, the file also holds another
\* athlete's result inside the window, and the call returned
\* no_results_in_period.
C10_Witness ==
    /\ Returned
    /\ \E row \in AthleteRows : row.date.kind = "value"
    /\ \E i \in DOMAIN results_file :
          /\ results_file[i].player_id # player_id
          /\ results_file[i].date.kind = "value"
          /\ WindowRequested
          /\ WindowStart <= results_file[i].date.v
          /\ results_file[i].date.v <= WindowEnd
    /\ Ret.scenario = "no_results_in_period"

-----------------------------------------------------------------------------
\* Every outcome of the call on the inputs of the state.
Outcomes ==
    calculate_player_points(load_results(results_file), player_id, mode,
                            ref_date, start_date, end_date, today)

\* The five scenario tags.
ScenarioTags ==
    {"no_results", "invalid_period", "no_results_in_period", "AVC_MZ_used", "Other_MZ_used"}

\* C11: the call is total: on every results file (rows without a date, with
\* non-numeric points, with event types outside EVENT_TYPES) and every window
\* request of either mode it has an outcome, and the breakdown it returns
\* carries one of the five scenario tags.
C11_Total ==
    IF Returned THEN Ret.scenario \in ScenarioTags ELSE Outcomes # {}

\* C11 witness: the athlete has a row whose date cell is unparseable and a
\* row inside the window, and the call returned a scored breakdown.
C11_Witness ==
    /\ Returned
    /\ \E row \in AthleteRows : row.date.kind = "junk"
    /\ Ret.window_results # <<>>
    /\ Ret.scenario \in {"AVC_MZ_used", "Other_MZ_used"}

\* The athlete's stored rows inside the window whose points cell is no number.
UnscoredRows == {row \in RowsInWindow : row.points.kind # "value"}

\* C12: a result of the window set whose points cell is empty or not a
\* number stays in the window set with points 0, counts 0 where it is
\* selected (each reported bucket sum is the sum of the other selected rows
\* of the bucket), and every other row keeps the points it is stored with.
C12_MissingPointsZero ==
    (Returned /\ WindowRequested /\ Ret.window_results # <<>>) =>
        /\ \A row \in UnscoredRows :
              /\ \E w \in WindowSet : w.result_id = row.result_id /\ w.points = 0
              /\ \A r \in SelectedSet : r.result_id = row.result_id => r.points = 0
        /\ \A row \in RowsInWindow \ UnscoredRows :
              \E w \in WindowSet : w.result_id = row.result_id /\ w.points = row.points.v
        /\ LET scored == {r \in SelectedSet :
                             \A row \in UnscoredRows : row.result_id # r.result_id}
           IN  /\ Ret.bucket1_points = SetSum(OfTypes(scored, WinningPolicy.b1))
               /\ Ret.bucket2_points = SetSum(OfTypes(scored, WinningPolicy.b2))

\* C12 witness: a selected result has an unparseable points cell, another
\* selected result of the same bucket has points, and the bucket sum is the
\* points of the latter.
C12_Witness ==
    /\ Returned
    /\ WindowRequested
    /\ \E row \in UnscoredRows, other \in RowsInWindow \ UnscoredRows :
          /\ row.points.kind = "junk"
          /\ \E r \in SelectedSet : r.result_id = row.result_id
          /\ \E r \in SelectedSet : r.result_id = other.result_id
          /\ row.event_type = "FIVB"
          /\ other.event_type = "FIVB"
          /\ Ret.bucket2_points = other.points.v

\* What a breakdown says about the scoring.
Scoring(ret) ==
    [total_points |-> ret.total_points, bucket1_points |-> ret.bucket1_points,
     bucket2_points |-> ret.bucket2_points, selected_results |-> ret.selected_results,
     scenario |-> ret.scenario]

\* The results file without its row i.
WithoutRow(file, i) ==
    [j \in 1..(Len(file) - 1) |-> IF j < i THEN file[j] ELSE file[j + 1]]

\* The scorings of the outcomes of the call on a results file.
ScoringsOn(file) ==
    {Scoring(o.ret) : o \in calculate_player_points(load_results(file), player_id, mode,
                                                     ref_date, start_date, end_date, today)}

\* The places in the file of the athlete's rows inside the window whose
\* event type is none of EVENT_TYPES.
UnknownTypePlaces ==
    {i \in DOMAIN results_file :
        /\ results_file[i] \in RowsInWindow
        /\ results_file[i].event_type \notin Range(EVENT_TYPES)}

\* C13: a result of the window set whose event type is none of EVENT_TYPES
\* is in window_results and never in selected_results, the total and the
\* bucket sums are those of the recognised rows, and when another result is
\* inside the window, the call on the file without the row reports the same
\* total, bucket sums, selected list and tag.
C13_UnknownTypeIgnored ==
    (WindowRequested /\ UnknownTypePlaces # {}) =>
        /\ \A i \in UnknownTypePlaces :
              Cardinality(RowsInWindow) > 1 =>
                  ScoringsOn(WithoutRow(results_file, i)) = ScoringsOn(results_file)
        /\ Returned =>
              /\ \A i \in UnknownTypePlaces :
                    /\ \E w \in WindowSet : w.result_id = results_file[i].result_id
                    /\ \A r \in SelectedSet : r.result_id # results_file[i].result_id
              /\ LET known == OfTypes(WindowSet, Range(EVENT_TYPES))
                 IN  /\ Ret.bucket1_points = LargestSum(OfTypes(known, WinningPolicy.b1), 4)
                     /\ Ret.bucket2_points = LargestSum(OfTypes(known, WinningPolicy.b2), 4)
                     /\ Ret.total_points = Ret.bucket1_points + Ret.bucket2_points

\* C13 witness: the window set holds a result of an unknown event type whose
\* points exceed the total returned, next to a selected result.
C13_Witness ==
    /\ Returned
    /\ WindowRequested
    /\ \E i \in UnknownTypePlaces :
          /\ results_file[i].points.kind = "value"
          /\ results_file[i].points.v > Ret.total_points
          /\ \E w \in WindowSet : w.result_id = results_file[i].result_id
    /\ Ret.selected_results # <<>>
    /\ Ret.total_points > 0

\* The policy that wins by the bucket definitions: Policy A unless the total
\* of Policy B is larger.
PolicyByTotals ==
    IF PolicyTotal(PolicyA) >= PolicyTotal(PolicyB) THEN PolicyA ELSE PolicyB

\* C14: in every breakdown total_points = bucket1_points + bucket2_points and
\* the points of the selected results sum to total_points; in a scored one
\* the two bucket sums, the selected results and the tag all come from the
\* policy that wins, which on equal totals is Policy A.
C14_ConsistentBreakdown ==
    Returned =>
        /\ Ret.total_points = Ret.bucket1_points + Ret.bucket2_points
        /\ SumPoints(Ret.selected_results) = Ret.total_points
        /\ Ret.window_results # <<>> =>
              LET policy == PolicyByTotals
              IN  /\ Ret.scenario = policy.tag
                  /\ Ret.bucket1_points = LargestSum(OfTypes(WindowSet, policy.b1), 4)
                  /\ Ret.bucket2_points = LargestSum(OfTypes(WindowSet, policy.b2), 4)
                  /\ SetSum(OfTypes(SelectedSet, policy.b1)) = Ret.bucket1_points
                  /\ SetSum(OfTypes(SelectedSet, policy.b2)) = Ret.bucket2_points
                  /\ SelectedSet \subseteq OfTypes(WindowSet, policy.b1 \cup policy.b2)

\* C14 witness: the policies tie with different splits (Policy A has more in
\* bucket 1, Policy B more in bucket 2) and the split returned is Policy A's.
C14_Witness ==
    /\ Returned
    /\ Ret.window_results # <<>>
    /\ PolicyTotal(PolicyA) = PolicyTotal(PolicyB)
    /\ LargestSum(OfTypes(WindowSet, PolicyA.b1), 4) > LargestSum(OfTypes(WindowSet, PolicyB.b1), 4)
    /\ Ret.bucket1_points = LargestSum(OfTypes(WindowSet, PolicyA.b1), 4)
    /\ Ret.bucket2_points = LargestSum(OfTypes(WindowSet, PolicyA.b2), 4)
    /\ Ret.bucket2_points > 0

\* The place of a window-set row in the results file.
PlaceOf(r) == CHOOSE i \in DOMAIN results_file : results_file[i].result_id = r.result_id

\* The rows of a bucket that a stable descending sort puts in its first 4
\* places: fewer than 4 rows have more points, or equal points and an
\* earlier place in the file.
StableTop(rows) ==
    {r \in rows :
        Cardinality({q \in rows : \/ q.points > r.points
                                  \/ (q.points = r.points /\ PlaceOf(q) < PlaceOf(r))}) < 4}

\* C15: when a bucket of the winning policy holds more than 4 results and
\* several tie on points at the 4th place, the selected ones are those that
\* come first in the input order (a stable descending sort).
C15_StableSelection ==
    (Returned /\ Ret.window_results # <<>>) =>
        /\ OfTypes(SelectedSet, WinningPolicy.b1) = StableTop(OfTypes(WindowSet, WinningPolicy.b1))
        /\ OfTypes(SelectedSet, WinningPolicy.b2) = StableTop(OfTypes(WindowSet, WinningPolicy.b2))

\* C17: the call changes neither the results file, nor the players file,
\* nor the rows of the frame it was given: after it returned, the caller's frame is the frame that
\* was loaded, row by row, with the dates and points it was loaded with.
C17_InputsUnchanged ==
    [][/\ results_file' = results_file
       /\ players_file' = players_file
       /\ result' # <<>> => results_df' = load_results(results_file)]_vars

\* C17 witness: the call scored a window holding a row whose points cell is
\* no number: the window row has points 0 and the row of the caller's frame
\* still has none.
C17_Witness ==
    /\ Returned
    /\ results_df # <<>>
    /\ \E w \in WindowSet :
          /\ w.points = 0
          /\ \E i \in DOMAIN results_df :
                /\ results_df[i].result_id = w.result_id
                /\ results_df[i].points = NaN
                /\ results_file[i].points = JunkCell

-----------------------------------------------------------------------------
\* The screen of the page that ran.
Scr == shown[1]

\* The outcomes of the points call for an athlete over a period, on the
\* results file of the state.
PointsOn(pid, period) == points_of(load_results(results_file), pid, period, today)

\* The label of an athlete in the select boxes.
LabelOf(pid) == player_display_name(get_player_by_id(load_players(players_file), pid)[1])

ZeroTags == {"no_results", "invalid_period", "no_results_in_period"}

\* C18: on the Team Combiner, the Multi-Team Report and the AVC Rankings the
\* total of every team shown is total(X) + total(Y), both taken from the
\* points call for the athlete over the period of the page; an athlete in a
\* zero scenario adds 0; two rows with the same two athletes in either order
\* have the same total, and the Team Combiner asked for (Y, X) shows the
\* total it shows for (X, Y).
C18_TeamTotal ==
    shown # <<>> =>
        \A i \in DOMAIN Scr.rows :
            LET row == Scr.rows[i]
                period == Scr.period[1]
            IN  /\ \A res1 \in PointsOn(row.p1, period), res2 \in PointsOn(row.p2, period) :
                      /\ row.r1 = res1
                      /\ row.r2 = res2
                      /\ row.Total = res1.total_points + res2.total_points
                /\ row.r1.scenario \in ZeroTags => row.Total = row.r2.total_points
                /\ row.r2.scenario \in ZeroTags => row.Total = row.r1.total_points
                /\ \A j \in DOMAIN Scr.rows :
                      (Scr.rows[j].p1 = row.p2 /\ Scr.rows[j].p2 = row.p1) =>
                          Scr.rows[j].Total = row.Total
                /\ Scr.page = "team_combiner" =>
                      \A other \in page_team_combiner(players_file, results_file,
                                                       LabelOf(row.p2), LabelOf(row.p1),
                                                       period, today) :
                          /\ other.rows # <<>>
                          /\ other.rows[1].Total = row.Total

\* C18 witness: a report over the custom period shows a team of an athlete
\* with points and an athlete whose results are all outside the period, and
\* the same two athletes in the other order, both with the total of the
\* former athlete.
C18_Witness ==
    /\ shown # <<>>
    /\ Scr.page = "multi_team_report"
    /\ \E i, j \in DOMAIN Scr.rows :
          /\ Scr.rows[i].r1.total_points > 0
          /\ Scr.rows[i].r2.scenario = "no_results_in_period"
          /\ Scr.rows[i].Total = Scr.rows[i].r1.total_points
          /\ Scr.rows[j].p1 = Scr.rows[i].p2
          /\ Scr.rows[j].p2 = Scr.rows[i].p1
          /\ Scr.rows[j].Total = Scr.rows[i].Total

\* The rankings page has derived its pairs.
PairsDerived ==
    /\ shown # <<>>
    /\ Scr.page = "avc_rankings"
    /\ Scr.message # "No players or results available yet."

\* The stored result names the player as teammate: its teammate cell holds,
\* between any spaces around it, the player's first and last name.
Names(result_row, player) ==
    /\ result_row.teammate.kind = "value"
    /\ strip(result_row.teammate.v) # <<>>
    /\ strip(result_row.teammate.v) = full_name(player)

\* The pairs of distinct athletes of which one has a result naming the other.
NamedPairs ==
    LET players_df == load_players(players_file)
    IN  {sorted_pair(x.player_id, y.player_id) :
            <<x, y>> \in {xy \in Range(players_df) \X Range(players_df) :
                            /\ xy[1].player_id # xy[2].player_id
                            /\ \E i \in DOMAIN results_file :
                                  /\ results_file[i].player_id = xy[1].player_id
                                  /\ Names(results_file[i], xy[2])}}

\* C19: the pairs the rankings page derives are the unordered pairs of
\* distinct athletes of which one has a result whose teammate text is the
\* other's "first last" name, each once; a teammate text that is no
\* athlete's name gives no pair.
C19_CandidatePairs ==
    PairsDerived => Scr.pair_keys = NamedPairs

\* The athlete's row of the players frame.
PlayerOf(pid) == get_player_by_id(load_players(players_file), pid)[1]

\* C20: every row of the rankings is a team of two athletes of one gender
\* that is Male on the Men tab and Female on the Women tab, and a derived
\* pair whose genders differ, or of which one is empty or neither Male nor
\* Female, is in no row.
C20_SameGender ==
    PairsDerived =>
        /\ \A i \in DOMAIN Scr.rows :
              LET pa == PlayerOf(Scr.rows[i].p1)
                  pb == PlayerOf(Scr.rows[i].p2)
              IN  /\ pa.gender = pb.gender
                  /\ pa.gender # ""
                  /\ Scr.tab = "Men" => pa.gender = "Male"
                  /\ Scr.tab = "Women" => pa.gender = "Female"
                  /\ Scr.tab \in {"Men", "Women"}
        /\ \A key \in Scr.pair_keys :
              (\/ PlayerOf(key[1]).gender # PlayerOf(key[2]).gender
               \/ PlayerOf(key[1]).gender \notin {"Male", "Female"}) =>
                  \A i \in DOMAIN Scr.rows : <<Scr.rows[i].p1, Scr.rows[i].p2>> # key

\* C20 witness: the Men tab shows a team of two Male athletes while the
\* derived pairs hold one of a Male athlete with an athlete whose gender
\* is empty or neither Male nor Female.
C20_Witness ==
    /\ PairsDerived
    /\ Scr.tab = "Men"
    /\ Scr.rows # <<>>
    /\ \E key \in Scr.pair_keys :
          /\ PlayerOf(key[1]).gender = "Male"
          /\ PlayerOf(key[2]).gender \in {"", "Mixed"}

\* C21: every team row a page shows with a total, derived by the rankings or
\* chosen on the Team Combiner or the Multi-Team Report, is a pair of two
\* distinct athletes of one gender that is Male or Female.
C21_TeamsOfOneCategory ==
    shown # <<>> =>
        \A i \in DOMAIN Scr.rows :
            LET pa == PlayerOf(Scr.rows[i].p1)
                pb == PlayerOf(Scr.rows[i].p2)
            IN  /\ Scr.rows[i].p1 # Scr.rows[i].p2
                /\ pa.gender = pb.gender
                /\ pa.gender \in {"Male", "Female"}

\* C29: the no-data check comes before the check of the window: for an
\* athlete without records a custom window with a missing bound returns the
\* zero-filled no_results breakdown with the empty period text, and
\* invalid_period is returned only for an athlete with at least one record.
C29_NoDataFirst ==
    Returned =>
        /\ (/\ AthleteRows = {}
            /\ mode = "custom"
            /\ (start_date = None \/ end_date = None)) =>
               /\ ZeroFilled("no_results")
               /\ Ret.window_results = <<>>
               /\ Ret.period_text = PeriodText(None, None, "")
        /\ Ret.scenario = "invalid_period" => AthleteRows # {}

\* C29 witness: the file holds results of another athlete only, the custom
\* window has no start bound, and the call returned no_results.
C29_Witness ==
    /\ Returned
    /\ results_file # <<>>
    /\ AthleteRows = {}
    /\ mode = "custom"
    /\ start_date = None
    /\ Ret.scenario = "no_results"

\* The two athletes of a row, in either order.
TeamOf(row) == {row.p1, row.p2}

AthletesShown == {Scr.rows[i].p1 : i \in DOMAIN Scr.rows} \cup {Scr.rows[i].p2 : i \in DOMAIN Scr.rows}

\* C23: the cache of a report is transparent and lives for one generation:
\* every breakdown in a row of the report is an outcome of the points call
\* for that athlete over the period of the report, an athlete of several
\* teams has the same breakdown in all of them, and the cache holds the
\* athletes of this report only, each with a breakdown over its period,
\* whatever an earlier generation had cached.
C23_CallScopedCache ==
    (shown # <<>> /\ Scr.page = "multi_team_report") =>
        /\ \A i \in DOMAIN Scr.rows :
              /\ Scr.rows[i].r1 \in PointsOn(Scr.rows[i].p1, Scr.period[1])
              /\ Scr.rows[i].r2 \in PointsOn(Scr.rows[i].p2, Scr.period[1])
              /\ Scr.rows[i].r1 = player_points_cache[Scr.rows[i].p1]
              /\ Scr.rows[i].r2 = player_points_cache[Scr.rows[i].p2]
        /\ DOMAIN player_points_cache = AthletesShown
        /\ \A pid \in DOMAIN player_points_cache :
              player_points_cache[pid] \in PointsOn(pid, Scr.period[1])

\* C23 witness: a second report was generated over another period than the
\* first; an athlete of two teams of the second report was in the first
\* report with another total.
C23_Witness ==
    /\ Len(shown) = 2
    /\ shown[2].rows # <<>>
    /\ Len(Scr.rows) = 2
    /\ Scr.period # shown[2].period
    /\ Scr.rows[1].p1 = Scr.rows[2].p2
    /\ \E j \in DOMAIN shown[2].rows :
          /\ shown[2].rows[j].p1 = Scr.rows[1].p1
          /\ shown[2].rows[j].r1.total_points # Scr.rows[1].r1.total_points

\* The places in the file of the athlete's rows.
AthletePlaces == {i \in DOMAIN results_file : results_file[i].player_id = player_id}

-----------------------------------------------------------------------------
\* The store.

\* The player ids of players.csv, row by row, and the ids of both files.
StoredPlayerIds == [i \in DOMAIN players_file |-> players_file[i].player_id]
StoredResultIds == [i \in DOMAIN results_file |-> results_file[i].result_id]

\* The same lists after the step.
StoredPlayerIdsAfter == [i \in DOMAIN players_file' |-> players_file'[i].player_id]
StoredResultIdsAfter == [i \in DOMAIN results_file' |-> results_file'[i].result_id]

\* s is the beginning of t.
IsPrefix(s, t) == Len(s) <= Len(t) /\ SubSeq(t, 1, Len(s)) = s

\* The ids new_id() gives in the step.
GivenInStep == (uuids + 1)..uuids'

\* C22: a player's player_id is given once, by new_id() when the player is
\* created, and no operation changes it: the stored players have pairwise
\* different ids, each one given by a call of new_id(); a step that keeps
\* the stored players keeps the id of each of them and gives every added
\* player an id of its own calls of new_id(), and a step that does not keep
\* them stores only players created in that step.
C22_PlayerIdStable ==
    /\ [](/\ \A i, j \in DOMAIN players_file :
                players_file[i].player_id = players_file[j].player_id => i = j
          /\ \A i \in DOMAIN players_file : players_file[i].player_id \in 1..uuids)
    /\ [][\/ /\ IsPrefix(StoredPlayerIds, StoredPlayerIdsAfter)
             /\ \A i \in (Len(players_file) + 1)..Len(players_file') :
                   players_file'[i].player_id \in GivenInStep
          \/ \A i \in DOMAIN players_file' : players_file'[i].player_id \in GivenInStep]_vars

\* Reached: the first player was renamed by the player form and has the id
\* of its creation, next to a player the import created and its result.
C22_Witness ==
    /\ Len(players_file) = 3
    /\ players_file[1].player_id = 1
    /\ players_file[1].first_name = Cell("Bo")
    /\ players_file[3].fivb_id = Cell(NewFivbId)
    /\ players_file[3].player_id = 3
    /\ \E i \in DOMAIN results_file : results_file[i].player_id = 3


\* The FIVB ids of the rows of the sheet that have one, and of the stored
\* players that have one.
has_fivb_id(cell) == cell.kind = "value" /\ cell.v # " "
SheetFivbIds ==
    {uploaded_file[i].fivb_id.v :
        i \in {j \in DOMAIN uploaded_file : has_fivb_id(uploaded_file[j].fivb_id)}}
StoredFivbIds ==
    {players_file[i].fivb_id.v :
        i \in {j \in DOMAIN players_file : has_fivb_id(players_file[j].fivb_id)}}

\* The players and the results stored by the step with ids given in it.
CreatedPlayers ==
    {players_file'[i] : i \in {j \in DOMAIN players_file' :
                                  players_file'[j].player_id \in GivenInStep}}
CreatedResults ==
    {results_file'[i] : i \in {j \in DOMAIN results_file' :
                                  results_file'[j].result_id \in GivenInStep}}

\* C24: the import matches players by FIVB id: every player it creates has
\* a FIVB id of the sheet that no stored player had, no two of them have the
\* same one, every result it stores belongs to a stored player with a FIVB
\* id of the sheet, and it stores one result for each row of the sheet that
\* has a FIVB id and none for the others.
C24_ImportByFivbId ==
    [][ImportExcel =>
         /\ \A p \in CreatedPlayers :
               /\ has_fivb_id(p.fivb_id)
               /\ p.fivb_id.v \in SheetFivbIds \ StoredFivbIds
         /\ \A p, q \in CreatedPlayers : p.fivb_id = q.fivb_id => p = q
         /\ \A r \in CreatedResults :
               \E i \in DOMAIN players_file' :
                  /\ players_file'[i].player_id = r.player_id
                  /\ has_fivb_id(players_file'[i].fivb_id)
                  /\ players_file'[i].fivb_id.v \in SheetFivbIds
         /\ Cardinality(CreatedResults) =
               Cardinality({j \in DOMAIN uploaded_file :
                               has_fivb_id(uploaded_file[j].fivb_id)})]_vars


\* The stored players as the pages load them.
StoredPlayers == Range(load_players(players_file))

\* C25: teammate annotations are symmetric after Add Result and Edit Result
\* operations from an empty result store: for every stored result of a
\* player X whose teammate text names another player Y there is a stored
\* result of Y whose teammate text names X, with the same date, event type
\* and points.
C25_SymmetricTeammates ==
    \A i \in DOMAIN results_file :
       \A X, Y \in StoredPlayers :
          (/\ X.player_id = results_file[i].player_id
           /\ Y.player_id # X.player_id
           /\ Names(results_file[i], Y))
          => \E j \in DOMAIN results_file :
                /\ results_file[j].player_id = Y.player_id
                /\ Names(results_file[j], X)
                /\ results_file[j].date = results_file[i].date
                /\ results_file[j].event_type = results_file[i].event_type
                /\ results_file[j].points = results_file[i].points


\* C26: no operation loses stored data: every player and every result of
\* the store before a step is in the store after it (possibly edited).
C26_NoDataLoss ==
    [][/\ Range(StoredPlayerIds) \subseteq Range(StoredPlayerIdsAfter)
       /\ Range(StoredResultIds) \subseteq Range(StoredResultIdsAfter)]_vars

\* The texts of the teammate cell of a stored result.
teammate_of(r) == IF r.teammate.kind = "value" THEN r.teammate.v ELSE <<>>

\* The stored players as the pages load them, after the step.
StoredPlayersAfter == Range(load_players(players_file'))

\* C27: Add Result keeps every stored record as it was and appends one
\* record without teammate, or two records with new and different ids, the
\* same date, event type and points, each owned by a stored player and
\* naming the owner of the other.
C27_AddResultAppends ==
    [][AddResult =>
         /\ IsPrefix(results_file, results_file')
         /\ LET added == SubSeq(results_file', Len(results_file) + 1, Len(results_file'))
                owner(r) == {p \in StoredPlayersAfter : p.player_id = r.player_id}
            IN  /\ \A i \in DOMAIN added : added[i].result_id \in GivenInStep
                /\ \/ /\ Len(added) = 1
                      /\ teammate_of(added[1]) = <<>>
                   \/ /\ Len(added) = 2
                      /\ added[1].result_id # added[2].result_id
                      /\ added[1].date = added[2].date
                      /\ added[1].event_type = added[2].event_type
                      /\ added[1].points = added[2].points
                      /\ \E X \in owner(added[1]), Y \in owner(added[2]) :
                            /\ X.player_id # Y.player_id
                            /\ Names(added[1], Y)
                            /\ Names(added[2], X)]_vars

====
